---------------------------- MODULE Spec2Model ----------------------------
(***************************************************************************)
(* Model of the technical-blog front end: the post catalog and its query   *)
(* functions (js/posts.js) and the listing-page controller (js/blog.js).   *)
(*                                                                         *)
(* Strings that the code inspects character by character (titles,          *)
(* summaries, tags, queries, dates) are sequences of UTF-16 code units.    *)
(* Post ids are only ever compared with ===, so they are opaque strings.   *)
(***************************************************************************)
EXTENDS Integers, Sequences, FiniteSets, TLC

VARIABLES
    POSTS,          \* posts.js: the catalog array
    call,           \* the last function call / event handler that ran
    result,         \* the value returned by the last query call
    loaded,         \* blog.js: DOMContentLoaded has run
    currentTag,     \* blog.js: let currentTag
    currentPage,    \* blog.js: let currentPage
    filteredPosts,  \* blog.js: let filteredPosts
    searchInput,    \* value of the #search-input element
    searchTimeout,  \* initSearch: let searchTimeout, a timer id (0: undefined)
    timers,         \* the window's pending timeouts
    tagButtons,     \* data-tag values of the buttons in #tag-filters
    container,      \* posts rendered as cards in #blog-posts-container
    pagination,     \* controls rendered in #pagination
    sinceKey,       \* history: ms since the last keystroke, up to the delay
    keys,           \* history: keystrokes of the current burst
    evaluations,    \* history: handleSearch calls since the burst began
    storedTheme,    \* theme.js: localStorage entry 'theme' ("null": absent)
    dataTheme,      \* theme.js: attribute data-theme of the root element
    prefersDark,    \* theme.js: matchMedia('(prefers-color-scheme: dark)').matches
    themeLoaded,    \* theme.js: DOMContentLoaded has run
    themeToggle,    \* theme.js: the document has a #theme-toggle element
    storedAtLoad,   \* history: the entry getTheme read at DOMContentLoaded
    toggled,        \* history: the user has toggled the theme
    beforeToggles,  \* history: <<applied, stored>> before each toggle of the
                    \* latest run of consecutive toggles (the last two)
    urlId,          \* post.js: the id parameter of the URL ("": none)
    pc,             \* post.js: where loadPost stands
    fetches,        \* post.js: content fetches issued and their state
    postTitle,      \* post.js: text of #post-title
    postBody,       \* post.js: content of #post-body
    relatedPosts,   \* post.js: has loadRelatedPosts run, and the posts it got
    unhandled,      \* post.js: the promise of loadPost() was rejected
    homeLoaded,     \* main.js: DOMContentLoaded has run on the home page
    postsContainer, \* main.js: content of #posts-container
    firstCall       \* history: the first call of a run, what it returned, and
                    \* whether other calls have followed it

blogVars == <<loaded, currentTag, currentPage, filteredPosts, searchInput,
              searchTimeout, timers, tagButtons, container, pagination>>

\* history of the keystroke bursts, kept by the debounce specification only
burstVars == <<sinceKey, keys, evaluations>>

\* state of the other pages, which the listing page does not touch
themeVars == <<storedTheme, dataTheme, prefersDark, themeLoaded, themeToggle,
               storedAtLoad, toggled, beforeToggles>>

postVars == <<urlId, pc, fetches, postTitle, postBody, relatedPosts, unhandled>>

homeVars == <<homeLoaded, postsContainer>>

otherPages == <<themeVars, postVars, homeVars>>

vars == <<POSTS, call, result, blogVars, burstVars, otherPages, firstCall>>

-----------------------------------------------------------------------------
(* Bounds *)

MaxPosts == 3        \* longest catalog of the query-engine specification
MaxBlogPosts == 20   \* longest catalog of the listing-page specification
MaxLimit == 2        \* largest limit passed to getRecentPosts/getRelatedPosts
MaxBurst == 3        \* most keystrokes counted in one burst
TickMs == 100        \* milliseconds that pass in one step of the clock

\* blog.js initSearch: the delay passed to setTimeout, in milliseconds
DebounceDelay == 300

-----------------------------------------------------------------------------
(* Strings as sequences of code units *)

Min(a, b) == IF a < b THEN a ELSE b

\* String.prototype.toLowerCase on the Latin capital letters A..Z
LowerUnit(c) == IF c >= 65 /\ c <= 90 THEN c + 32 ELSE c
toLowerCase(s) == [i \in 1..Len(s) |-> LowerUnit(s[i])]

\* String.prototype.includes: q occurs in s as a contiguous substring
includes(s, q) ==
    \E i \in 0..(Len(s) - Len(q)) : SubSeq(s, i + 1, i + Len(q)) = q

\* String.prototype.trim: strip white space (space, tab, LF, CR) at both ends
IsWhiteSpace(c) == c \in {9, 10, 13, 32}
trim(s) ==
    LET keep == {i \in 1..Len(s) : ~IsWhiteSpace(s[i])}
    IN  IF keep = {} THEN <<>>
        ELSE LET lo == CHOOSE i \in keep : \A j \in keep : i <= j
                 hi == CHOOSE i \in keep : \A j \in keep : i >= j
             IN  SubSeq(s, lo, hi)

\* a < b in the order of the default Array.prototype.sort comparator on
\* strings: lexicographic by code unit, a proper prefix comes first
StringLess(a, b) ==
    \E k \in 1..(Min(Len(a), Len(b)) + 1) :
        /\ \A j \in 1..(k - 1) : a[j] = b[j]
        /\ \/ k = Len(a) + 1 /\ k <= Len(b)
           \/ k <= Len(a) /\ k <= Len(b) /\ a[k] < b[k]

-----------------------------------------------------------------------------
(* Dates: new Date('YYYY-MM-DD') is midnight UTC of that day.  Its time     *)
(* value is DaysFromCivil * 86 400 000 ms; the values are kept in whole    *)
(* days (the common factor divided out) to stay inside 32-bit integers.    *)

Digit(c) == c - 48
Year(d)  == 1000 * Digit(d[1]) + 100 * Digit(d[2]) + 10 * Digit(d[3]) + Digit(d[4])
Month(d) == 10 * Digit(d[6]) + Digit(d[7])
Day(d)   == 10 * Digit(d[9]) + Digit(d[10])

\* days from 1970-01-01 to the civil date y-m-d (proleptic Gregorian)
DayOfYear(m, d) == (153 * (IF m > 2 THEN m - 3 ELSE m + 9) + 2) \div 5 + d - 1
DayOfEra(yoe, doy) == yoe * 365 + yoe \div 4 - yoe \div 100 + doy
DaysOfShiftedYear(yy, doy) ==
    (yy \div 400) * 146097 + DayOfEra(yy % 400, doy) - 719468
DaysFromCivil(y, m, d) ==
    DaysOfShiftedYear(IF m <= 2 THEN y - 1 ELSE y, DayOfYear(m, d))

DateValue(d) == DaysFromCivil(Year(d), Month(d), Day(d))

\* the dates that occur in the catalogs
d_2026_01_28 == <<50, 48, 50, 54, 45, 48, 49, 45, 50, 56>>
d_2026_01_05 == <<50, 48, 50, 54, 45, 48, 49, 45, 48, 53>>
d_2025_12_20 == <<50, 48, 50, 53, 45, 49, 50, 45, 50, 48>>

Dates == {d_2026_01_28, d_2025_12_20}
BlogDates == <<d_2026_01_05, d_2026_01_28, d_2025_12_20>>

\* the dates of the catalog as shipped: '2026-01-28', '2026-01-20',
\* '2026-01-15', '2026-01-10', '2026-01-05'
ShippedDates ==
    <<d_2026_01_28,
      <<50, 48, 50, 54, 45, 48, 49, 45, 50, 48>>,
      <<50, 48, 50, 54, 45, 48, 49, 45, 49, 53>>,
      <<50, 48, 50, 54, 45, 48, 49, 45, 49, 48>>,
      d_2026_01_05>>

\* new Date(d) for every date of the catalogs, parsed once
DateTable ==
    [d \in Dates \cup {BlogDates[i] : i \in DOMAIN BlogDates}
                \cup {ShippedDates[i] : i \in DOMAIN ShippedDates} |->
        DateValue(d)]

-----------------------------------------------------------------------------
(* Array helpers *)

Range(s) == {s[i] : i \in 1..Len(s)}

\* Array.prototype.slice(start, end) for 0 <= start, 0 <= end
slice(s, start, end) == SubSeq(s, start + 1, Min(end, Len(s)))

(* The comparators handed to Array.prototype.sort *)

\* mutant of DateDescending: operands swapped, oldest first
DateDescending_swapped(a, b) == DateTable[a.date] - DateTable[b.date]

\* (a, b) => new Date(b.date) - new Date(a.date)
DateDescending(a, b) == DateTable[b.date] - DateTable[a.date]

\* (a, b) => b.score - a.score
ScoreDescending(a, b) == b.score - a.score

\* no comparator: by string order
StringCompare(a, b) == IF StringLess(a, b) THEN -1 ELSE IF a = b THEN 0 ELSE 1

Compare(comparefn, a, b) ==
    CASE comparefn = "DateDescending"  -> DateDescending(a, b)
      [] comparefn = "ScoreDescending" -> ScoreDescending(a, b)
      [] comparefn = "default"         -> StringCompare(a, b)

\* Array.prototype.sort is stable (ECMAScript 2019): an element goes behind
\* every element that does not compare greater than it.  `sorted` is already
\* in order, so those elements are a prefix of it.
InsertAt(sorted, x, k) ==
    SubSeq(sorted, 1, k) \o <<x>> \o SubSeq(sorted, k + 1, Len(sorted))

SortInsert(sorted, x, comparefn) ==
    InsertAt(sorted, x,
             Cardinality({j \in 1..Len(sorted) : Compare(comparefn, sorted[j], x) <= 0}))

sort(s, comparefn) ==
    LET f[i \in 0..Len(s)] ==
            IF i = 0 THEN <<>> ELSE SortInsert(f[i - 1], s[i], comparefn)
    IN  f[Len(s)]

sortDefault(s) == sort(s, "default")

\* mutant of SetAdd: every value is appended, duplicates included
SetAdd_always(acc, x) == Append(acc, x)

\* Set.prototype.add: a value already present is not added again
SetAdd(acc, x) ==
    IF \E j \in 1..Len(acc) : acc[j] = x THEN acc ELSE Append(acc, x)

\* new Set() filled in array order, then Array.from: insertion order
SetInOrder(s) ==
    LET f[i \in 0..Len(s)] == IF i = 0 THEN <<>> ELSE SetAdd(f[i - 1], s[i])
    IN  f[Len(s)]

\* concatenation of a sequence of sequences (nested forEach)
Flatten(ss) ==
    LET f[i \in 0..Len(ss)] == IF i = 0 THEN <<>> ELSE f[i - 1] \o ss[i]
    IN  f[Len(ss)]

-----------------------------------------------------------------------------
(* The catalog *)

s_all == <<97, 108, 108>>    \* 'all'
s_Cd  == <<67, 100>>
s_d   == <<100>>
s_dC  == <<100, 67>>
t_Ab  == <<65, 98>>
t_ab  == <<97, 98>>
t_B   == <<66>>

\* title, summary and tags of a record
Contents ==
    << [title |-> s_Cd, summary |-> s_d,  tags |-> <<t_Ab, t_B>>],
       [title |-> s_d,  summary |-> s_dC, tags |-> <<t_ab>>],
       [title |-> s_d,  summary |-> s_d,  tags |-> <<t_B>>] >>

BlogContents == Contents \o << [title |-> s_d, summary |-> s_d, tags |-> <<>>] >>

PostId(i) == "p" \o ToString(i)

PostRecord(i, d, c) ==
    [id |-> PostId(i), title |-> c.title, date |-> d,
     summary |-> c.summary, tags |-> c.tags]

\* Catalogs of the query-engine specification: every sequence of up to
\* MaxPosts records; ids are unique and, being opaque, named by position.
Catalogs ==
    UNION { { [i \in 1..n |-> PostRecord(i, ds[i], Contents[cs[i]])] :
                ds \in [1..n -> Dates], cs \in [1..n -> 1..Len(Contents)] } :
            n \in 0..MaxPosts }

\* Catalogs of the listing-page specification: n records cycling through
\* the dates and the contents.
BlogCatalog(n) ==
    [i \in 1..n |-> PostRecord(i, BlogDates[(i % 3) + 1],
                               BlogContents[((i * i + i \div 3) % 4) + 1])]

KnownIds == {PostId(i) : i \in 1..MaxPosts}
IdInputs == KnownIds \cup {"unknown"}
TagInputs == {s_all, <<65, 66>>, <<98>>, <<67>>}
QueryInputs == {<<>>, <<67, 68>>, <<65, 66>>, <<100, 99>>, <<32>>}

-----------------------------------------------------------------------------
(* posts.js *)

Undefined == [undefined |-> TRUE]

getAllPosts == sort(POSTS, "DateDescending")

\* mutant of SortedByGetAllPosts: POSTS.sort(...), without the copy
SortedByGetAllPosts_inPlace == "POSTS"

\* the array that getAllPosts sorts: [...POSTS], a copy
SortedByGetAllPosts == "copy"

\* Array.prototype.sort sorts its receiver in place: POSTS after getAllPosts()
AfterGetAllPosts ==
    IF SortedByGetAllPosts = "POSTS" THEN getAllPosts ELSE POSTS

\* mutant of getPostById: a miss falls back to the first record
getPostById_firstOnMiss(id) ==
    IF \E i \in 1..Len(POSTS) : POSTS[i].id = id
    THEN POSTS[CHOOSE i \in 1..Len(POSTS) : POSTS[i].id = id]
    ELSE IF Len(POSTS) > 0 THEN POSTS[1] ELSE Undefined

getPostById(id) ==
    IF \E i \in 1..Len(POSTS) : POSTS[i].id = id
    THEN POSTS[CHOOSE i \in 1..Len(POSTS) :
                 /\ POSTS[i].id = id
                 /\ \A j \in 1..(i - 1) : POSTS[j].id # id]
    ELSE Undefined

\* mutant of getRecentPosts: the first records of POSTS in catalog order
getRecentPosts_catalogOrder(limit) == slice(POSTS, 0, limit)

getRecentPosts(limit) == slice(getAllPosts, 0, limit)

\* mutant of HasTag: tags compared without lower-casing
HasTag_caseSensitive(post, tag) ==
    \E i \in 1..Len(post.tags) : post.tags[i] = tag

HasTag(post, tag) ==
    \E i \in 1..Len(post.tags) : toLowerCase(post.tags[i]) = toLowerCase(tag)

getPostsByTag(tag) ==
    IF tag = s_all
    THEN getAllPosts
    ELSE LET keep(post) == HasTag(post, tag)
         IN  SelectSeq(getAllPosts, keep)

getAllTags ==
    sortDefault(SetInOrder(Flatten([i \in 1..Len(POSTS) |-> POSTS[i].tags])))

\* mutant of Matches: tags are not searched
Matches_titleSummaryOnly(post, lowerQuery) ==
    \/ includes(toLowerCase(post.title), lowerQuery)
    \/ includes(toLowerCase(post.summary), lowerQuery)

Matches(post, lowerQuery) ==
    \/ includes(toLowerCase(post.title), lowerQuery)
    \/ includes(toLowerCase(post.summary), lowerQuery)
    \/ \E i \in 1..Len(post.tags) : includes(toLowerCase(post.tags[i]), lowerQuery)

searchPosts(query) ==
    LET lowerQuery == toLowerCase(query)
        keep(post) == Matches(post, lowerQuery)
    IN  SelectSeq(getAllPosts, keep)

\* mutant of Score: every tag of p counts, shared or not
Score_everyTag(p, post) == Len(p.tags)

\* p.tags.filter(tag => post.tags.includes(tag)).length
Score(p, post) ==
    Cardinality({i \in 1..Len(p.tags) :
                    \E j \in 1..Len(post.tags) : post.tags[j] = p.tags[i]})

WithScore(p, post) ==
    [id |-> p.id, title |-> p.title, date |-> p.date, summary |-> p.summary,
     tags |-> p.tags, score |-> Score(p, post)]

\* mutant of getRelatedPosts: the source post is not filtered out
getRelatedPosts_keepsSource(postId, limit) ==
    LET post == getPostById(postId)
    IN  IF post = Undefined THEN <<>>
        ELSE LET positive(p) == p.score > 0
                 mapped == [i \in 1..Len(POSTS) |-> WithScore(POSTS[i], post)]
                 scored == sort(SelectSeq(mapped, positive), "ScoreDescending")
             IN  slice(scored, 0, limit)

getRelatedPosts(postId, limit) ==
    LET post == getPostById(postId)
    IN  IF post = Undefined THEN <<>>
        ELSE LET others(p) == p.id # postId
                 positive(p) == p.score > 0
                 rest == SelectSeq(POSTS, others)
                 mapped == [i \in 1..Len(rest) |-> WithScore(rest[i], post)]
                 scored == sort(SelectSeq(mapped, positive), "ScoreDescending")
             IN  slice(scored, 0, limit)

-----------------------------------------------------------------------------
(* Query-engine specification: calls of the posts.js functions *)

\* after: for a timeout callback, the event that came just before it
NoCall == [op |-> "none", id |-> "", limit |-> 0, text |-> <<>>, page |-> 0,
           after |-> "none"]

BlogInit ==
    /\ loaded = FALSE
    /\ currentTag = s_all
    /\ currentPage = 1
    /\ filteredPosts = <<>>
    /\ searchInput = <<>>
    /\ searchTimeout = 0
    /\ timers = {}
    /\ tagButtons = {}
    /\ container = <<>>
    /\ pagination = <<>>
    /\ sinceKey = DebounceDelay
    /\ keys = 0
    /\ evaluations = 0

\* theme.js before the document is ready, nothing stored
ThemeIdle ==
    /\ storedTheme = "null"
    /\ dataTheme = "null"
    /\ prefersDark = FALSE
    /\ themeLoaded = FALSE
    /\ themeToggle = FALSE
    /\ storedAtLoad = "null"
    /\ toggled = FALSE
    /\ beforeToggles = <<>>

\* #related-posts-container before loadRelatedPosts has run
NotLoaded == [called |-> FALSE, posts |-> <<>>]

\* post.js before the document is ready, no id in the URL
PostIdle ==
    /\ urlId = ""
    /\ pc = "start"
    /\ fetches = <<>>
    /\ postTitle = <<>>
    /\ postBody = "initial"
    /\ relatedPosts = NotLoaded
    /\ unhandled = FALSE

\* #posts-container as the home page ships it, before main.js fills it
HomeNotLoaded == [state |-> "initial", posts |-> <<>>]

\* main.js before the document is ready
HomeIdle ==
    /\ homeLoaded = FALSE
    /\ postsContainer = HomeNotLoaded

\* no call has been made yet
NothingCalled == [call |-> NoCall, result |-> <<>>, again |-> FALSE]

QueryInit ==
    /\ POSTS \in Catalogs
    /\ call = NoCall
    /\ firstCall = NothingCalled
    /\ result = <<>>
    /\ BlogInit
    /\ ThemeIdle
    /\ PostIdle
    /\ HomeIdle

\* The functions as they are called: each reads POSTS, and what its array
\* methods do to POSTS is part of the call.  find, filter, map, forEach,
\* slice and some leave their receiver as it is.
InvokeGetAllPosts ==
    /\ call' = [NoCall EXCEPT !.op = "getAllPosts"]
    /\ result' = getAllPosts
    /\ POSTS' = AfterGetAllPosts
    /\ UNCHANGED <<blogVars, burstVars, otherPages>>

InvokeGetPostById ==
    \E id \in IdInputs :
        /\ call' = [NoCall EXCEPT !.op = "getPostById", !.id = id]
        /\ result' = getPostById(id)
        /\ UNCHANGED <<POSTS, blogVars, burstVars, otherPages>>

InvokeGetRecentPosts ==
    \E limit \in 0..MaxLimit :
        /\ call' = [NoCall EXCEPT !.op = "getRecentPosts", !.limit = limit]
        /\ result' = getRecentPosts(limit)
        /\ POSTS' = AfterGetAllPosts
        /\ UNCHANGED <<blogVars, burstVars, otherPages>>

InvokeGetPostsByTag ==
    \E tag \in TagInputs :
        /\ call' = [NoCall EXCEPT !.op = "getPostsByTag", !.text = tag]
        /\ result' = getPostsByTag(tag)
        /\ POSTS' = AfterGetAllPosts
        /\ UNCHANGED <<blogVars, burstVars, otherPages>>

InvokeGetAllTags ==
    /\ call' = [NoCall EXCEPT !.op = "getAllTags"]
    /\ result' = getAllTags
    /\ UNCHANGED <<POSTS, blogVars, burstVars, otherPages>>

InvokeSearchPosts ==
    \E query \in QueryInputs :
        /\ call' = [NoCall EXCEPT !.op = "searchPosts", !.text = query]
        /\ result' = searchPosts(query)
        /\ POSTS' = AfterGetAllPosts
        /\ UNCHANGED <<blogVars, burstVars, otherPages>>

InvokeGetRelatedPosts ==
    \E id \in IdInputs, limit \in 0..MaxLimit :
        /\ call' = [NoCall EXCEPT !.op = "getRelatedPosts", !.id = id,
                                  !.limit = limit]
        /\ result' = getRelatedPosts(id, limit)
        /\ UNCHANGED <<POSTS, blogVars, burstVars, otherPages>>

\* a call on its own, as the query-engine specifications make it
CallGetAllPosts == InvokeGetAllPosts /\ UNCHANGED firstCall

CallGetPostById == InvokeGetPostById /\ UNCHANGED firstCall

CallGetRecentPosts == InvokeGetRecentPosts /\ UNCHANGED firstCall

CallGetPostsByTag == InvokeGetPostsByTag /\ UNCHANGED firstCall

CallGetAllTags == InvokeGetAllTags /\ UNCHANGED firstCall

CallSearchPosts == InvokeSearchPosts /\ UNCHANGED firstCall

CallGetRelatedPosts == InvokeGetRelatedPosts /\ UNCHANGED firstCall

QueryNext ==
    \/ CallGetAllPosts
    \/ CallGetPostById
    \/ CallGetRecentPosts
    \/ CallGetPostsByTag
    \/ CallGetAllTags
    \/ CallSearchPosts

SpecQuery == QueryInit /\ [][QueryNext]_vars

\* the related-posts query on the same catalogs
RelatedNext == CallGetRelatedPosts

SpecRelated == QueryInit /\ [][RelatedNext]_vars

(* Sequences of calls: any of the seven functions, one after another, on    *)
(* catalogs whose records take any dates, in any order.  The history       *)
(* variable keeps the first call and its result for comparison with the    *)
(* same call made again later.                                             *)

SequenceCatalogs ==
    UNION { { [i \in 1..n |->
                 PostRecord(i, ds[i], Contents[((i - 1) % Len(Contents)) + 1])] :
                ds \in [1..n -> Dates] } :
            n \in 0..MaxPosts }

SequenceInit ==
    /\ POSTS \in SequenceCatalogs
    /\ call = NoCall
    /\ firstCall = NothingCalled
    /\ result = <<>>
    /\ BlogInit
    /\ ThemeIdle
    /\ PostIdle
    /\ HomeIdle

AnyCall ==
    /\ \/ InvokeGetAllPosts
       \/ InvokeGetPostById
       \/ InvokeGetRecentPosts
       \/ InvokeGetPostsByTag
       \/ InvokeGetAllTags
       \/ InvokeSearchPosts
       \/ InvokeGetRelatedPosts
    /\ firstCall' =
           IF firstCall.call = NoCall
           THEN [call |-> call', result |-> result', again |-> FALSE]
           ELSE [firstCall EXCEPT !.again = TRUE]

SequenceNext == AnyCall

SpecSequence == SequenceInit /\ [][SequenceNext]_vars

-----------------------------------------------------------------------------
(* blog.js: the listing page.  The elements the handlers look up           *)
(* (#tag-filters with its 'all' button, #search-input,                     *)
(* #blog-posts-container, #pagination) are present, as in blog.html.       *)
(* The scroll position set by changePage is outside the modelled state.    *)

postsPerPage == 9

\* mutant of clearTimeout: the pending timeout is left in place
clearTimeout_noop(pending, id) == pending

\* clearTimeout(id): the timeout with that id, if still pending, is dropped
clearTimeout(pending, id) == {t \in pending : t.id # id}

\* the id setTimeout returns: one that no pending timeout carries
NextTimerId(pending) ==
    CHOOSE n \in 1..(Cardinality(pending) + 1) :
        /\ \A t \in pending : t.id # n
        /\ \A m \in 1..(n - 1) : \E t \in pending : t.id = m

\* setTimeout(callback, 300): a new pending timeout, no time elapsed yet
setTimeout(pending) ==
    pending \cup {[id |-> NextTimerId(pending), elapsed |-> 0]}

\* Math.ceil(a / b) for a >= 0, b > 0
Ceil(a, b) == (a + b - 1) \div b

\* mutant of postsToShow: the start index is not shifted to zero-based pages
postsToShow_offByOnePage(posts, page) ==
    slice(posts, page * postsPerPage, page * postsPerPage + postsPerPage)

\* displayPosts: the cards written into #blog-posts-container; the empty
\* sequence stands for the 'No posts found.' paragraph
postsToShow(posts, page) ==
    LET startIndex == (page - 1) * postsPerPage
        endIndex == startIndex + postsPerPage
    IN  slice(posts, startIndex, endIndex)

\* updatePagination: the page buttons written into #pagination and whether
\* Previous / Next are enabled; no control at all for a single page
PaginationControls(totalPages, page) ==
    IF totalPages <= 1
    THEN [buttons |-> {}, prev |-> FALSE, next |-> FALSE]
    ELSE [buttons |-> {i \in 1..totalPages :
                          \/ i = 1
                          \/ i = totalPages
                          \/ (i >= page - 1 /\ i <= page + 1)},
          prev |-> page # 1,
          next |-> page # totalPages]

updatePagination ==
    pagination' = PaginationControls(Ceil(Len(filteredPosts'), postsPerPage),
                                     currentPage')

\* displayPosts() renders from the globals as the handler has just set them
displayPosts ==
    /\ container' = postsToShow(filteredPosts', currentPage')
    /\ updatePagination

loadPosts ==
    /\ filteredPosts' = getPostsByTag(currentTag')
    /\ displayPosts

\* mutant of filterByTag: the search box keeps its text
filterByTag_keepsSearchText(tag) ==
    /\ currentTag' = tag
    /\ currentPage' = 1
    /\ UNCHANGED searchInput
    /\ loadPosts

\* filterByTag(tag): select the tag, go to page 1, clear the search box
filterByTag(tag) ==
    /\ currentTag' = tag
    /\ currentPage' = 1
    /\ searchInput' = <<>>
    /\ loadPosts

\* mutant of handleSearch: a search does not go back to page 1
handleSearch_keepsPage(query) ==
    IF trim(query) = <<>>
    THEN filterByTag(currentTag)
    ELSE /\ filteredPosts' = searchPosts(query)
         /\ UNCHANGED <<currentPage, currentTag, searchInput>>
         /\ displayPosts

\* mutant of handleSearch: only the empty string is special, no trim()
handleSearch_noTrim(query) ==
    IF query = <<>>
    THEN filterByTag(currentTag)
    ELSE /\ filteredPosts' = searchPosts(query)
         /\ currentPage' = 1
         /\ UNCHANGED <<currentTag, searchInput>>
         /\ displayPosts

\* mutant of handleSearch: the search runs inside the selected tag only
handleSearch_withinTag(query) ==
    IF trim(query) = <<>>
    THEN filterByTag(currentTag)
    ELSE /\ filteredPosts' =
                LET keep(post) == currentTag = s_all \/ HasTag(post, currentTag)
                IN  SelectSeq(searchPosts(query), keep)
         /\ currentPage' = 1
         /\ UNCHANGED <<currentTag, searchInput>>
         /\ displayPosts

handleSearch(query) ==
    IF trim(query) = <<>>
    THEN filterByTag(currentTag)
    ELSE /\ filteredPosts' = searchPosts(query)
         /\ currentPage' = 1
         /\ UNCHANGED <<currentTag, searchInput>>
         /\ displayPosts

\* mutant of changePage: pages past the last one are not rejected
changePage_noUpperBound(page) ==
    IF page < 1
    THEN UNCHANGED <<currentPage, filteredPosts, container, pagination>>
    ELSE /\ currentPage' = page
         /\ UNCHANGED filteredPosts
         /\ displayPosts

changePage(page) ==
    IF page < 1 \/ page > Ceil(Len(filteredPosts), postsPerPage)
    THEN UNCHANGED <<currentPage, filteredPosts, container, pagination>>
    ELSE /\ currentPage' = page
         /\ UNCHANGED filteredPosts
         /\ displayPosts

SearchTexts == {<<>>, <<32>>, <<98>>, <<100, 99>>}
MaxPage == Ceil(MaxBlogPosts, postsPerPage)
PageInputs == 0..(MaxPage + 1)

BlogSpecInit ==
    /\ POSTS \in {BlogCatalog(n) : n \in 0..MaxBlogPosts}
    /\ call = NoCall
    /\ firstCall = NothingCalled
    /\ result = <<>>
    /\ BlogInit
    /\ ThemeIdle
    /\ PostIdle
    /\ HomeIdle

\* DOMContentLoaded: initTagFilters(); initSearch(); loadPosts()
OnDOMContentLoaded ==
    /\ ~loaded
    /\ loaded' = TRUE
    /\ tagButtons' = {s_all} \cup Range(getAllTags)
    /\ UNCHANGED <<POSTS, result, currentTag, currentPage, searchInput,
                   searchTimeout, timers, otherPages, firstCall>>
    /\ loadPosts
    /\ call' = [NoCall EXCEPT !.op = "DOMContentLoaded"]

\* click listener of a button of #tag-filters
OnTagClick(tag) ==
    /\ loaded
    /\ filterByTag(tag)
    /\ call' = [NoCall EXCEPT !.op = "filterByTag", !.text = tag]
    /\ UNCHANGED <<POSTS, result, loaded, searchTimeout, timers, tagButtons,
                   otherPages, firstCall>>

\* input listener of #search-input, run when the user changes the value:
\* clearTimeout(searchTimeout); searchTimeout = setTimeout(..., 300)
OnSearchInput(value) ==
    /\ loaded
    /\ value # searchInput
    /\ searchInput' = value
    /\ searchTimeout' = NextTimerId(clearTimeout(timers, searchTimeout))
    /\ timers' = setTimeout(clearTimeout(timers, searchTimeout))
    /\ call' = [NoCall EXCEPT !.op = "input", !.text = value]
    /\ UNCHANGED <<POSTS, result, loaded, currentTag, currentPage,
                   filteredPosts, tagButtons, container, pagination,
                   otherPages, firstCall>>

\* the callback of timeout t runs: handleSearch(e.target.value), the value
\* the input holds at that moment
OnSearchTimeout(t) ==
    /\ t \in timers
    /\ timers' = timers \ {t}
    /\ handleSearch(searchInput)
    /\ call' = [NoCall EXCEPT !.op = "handleSearch", !.text = searchInput,
                               !.after = call.op]
    /\ UNCHANGED <<POSTS, result, loaded, searchTimeout, tagButtons,
                   otherPages, firstCall>>

\* changePage(page), from a pagination button or any other caller
OnChangePage(page) ==
    /\ loaded
    /\ call' = [NoCall EXCEPT !.op = "changePage", !.page = page]
    /\ changePage(page)
    /\ UNCHANGED <<POSTS, result, loaded, currentTag, searchInput,
                   searchTimeout, timers, tagButtons, otherPages, firstCall>>

(* Listing-page specification.  Time is not tracked here: a pending        *)
(* timeout may run at any moment after it was set.                         *)

DOMContentLoaded == OnDOMContentLoaded /\ UNCHANGED burstVars

TagClick == \E tag \in tagButtons : OnTagClick(tag) /\ UNCHANGED burstVars

SearchInput == \E value \in SearchTexts : OnSearchInput(value) /\ UNCHANGED burstVars

SearchTimerFires == \E t \in timers : OnSearchTimeout(t) /\ UNCHANGED burstVars

ChangePage == \E page \in PageInputs : OnChangePage(page) /\ UNCHANGED burstVars

BlogNext ==
    \/ DOMContentLoaded
    \/ TagClick
    \/ SearchInput
    \/ SearchTimerFires
    \/ ChangePage

SpecBlog == BlogSpecInit /\ [][BlogNext]_vars

(* Debounce specification: the same handlers with the clock.  A timeout    *)
(* runs no earlier than its delay after it was set; the history variables  *)
(* count the keystrokes that follow one another in less than the delay     *)
(* and the evaluations since such a burst began.                           *)

DebounceInit ==
    /\ POSTS \in {BlogCatalog(n) : n \in 0..MaxPosts}
    /\ call = NoCall
    /\ firstCall = NothingCalled
    /\ result = <<>>
    /\ BlogInit
    /\ ThemeIdle
    /\ PostIdle
    /\ HomeIdle

\* TickMs milliseconds pass
Tick ==
    /\ loaded
    /\ \/ sinceKey < DebounceDelay
       \/ \E t \in timers : t.elapsed < DebounceDelay
    /\ timers' = {[t EXCEPT !.elapsed = Min(DebounceDelay, t.elapsed + TickMs)] :
                     t \in timers}
    /\ sinceKey' = Min(DebounceDelay, sinceKey + TickMs)
    /\ UNCHANGED <<POSTS, call, result, loaded, currentTag, currentPage,
                   filteredPosts, searchInput, searchTimeout, tagButtons,
                   container, pagination, keys, evaluations, otherPages, firstCall>>

TimedDOMContentLoaded == OnDOMContentLoaded /\ UNCHANGED burstVars

TimedTagClick == \E tag \in tagButtons : OnTagClick(tag) /\ UNCHANGED burstVars

Keystroke ==
    \E value \in SearchTexts :
        /\ OnSearchInput(value)
        /\ sinceKey' = 0
        /\ IF keys >= 1 /\ sinceKey < DebounceDelay
           THEN /\ keys < MaxBurst
                /\ keys' = keys + 1
                /\ UNCHANGED evaluations
           ELSE /\ keys' = 1
                /\ evaluations' = 0

TimeoutExpires ==
    \E t \in timers :
        /\ t.elapsed >= DebounceDelay
        /\ OnSearchTimeout(t)
        /\ evaluations' = Min(2, evaluations + 1)
        /\ UNCHANGED <<sinceKey, keys>>

TimedChangePage == \E page \in PageInputs : OnChangePage(page) /\ UNCHANGED burstVars

DebounceNext ==
    \/ TimedDOMContentLoaded
    \/ TimedTagClick
    \/ Keystroke
    \/ Tick
    \/ TimeoutExpires
    \/ TimedChangePage

SpecDebounce == DebounceInit /\ [][DebounceNext]_vars

-----------------------------------------------------------------------------
(* theme.js *)

\* mutant of getTheme: the system preference wins over the saved theme
getTheme_systemFirst ==
    IF prefersDark THEN "dark"
    ELSE IF storedTheme # "null" THEN storedTheme ELSE "light"

\* getTheme(): the saved theme, else the system preference
getTheme ==
    IF storedTheme # "null" THEN storedTheme
    ELSE IF prefersDark THEN "dark" ELSE "light"

\* mutant of applyTheme: the theme is shown but not saved
applyTheme_notSaved(theme) ==
    /\ dataTheme' = theme
    /\ UNCHANGED storedTheme

\* applyTheme(theme): sets data-theme and saves the theme
applyTheme(theme) ==
    /\ dataTheme' = theme
    /\ storedTheme' = theme

\* mutant of toggleTheme: the dark theme whatever the current one is
toggleTheme_alwaysDark == applyTheme("dark")

\* toggleTheme()
toggleTheme == applyTheme(IF dataTheme = "dark" THEN "light" ELSE "dark")

\* mutant of NoSavedTheme: the listener follows the system whatever is saved
NoSavedTheme_always == TRUE

\* !localStorage.getItem('theme'), the guard of the change listener
NoSavedTheme == storedTheme = "null"

ThemeInit ==
    /\ POSTS = <<>>
    /\ call = NoCall
    /\ firstCall = NothingCalled
    /\ result = <<>>
    /\ BlogInit
    /\ PostIdle
    /\ HomeIdle
    /\ storedTheme \in {"null", "light", "dark"}
    /\ dataTheme = "null"
    /\ prefersDark \in BOOLEAN
    /\ themeLoaded = FALSE
    /\ themeToggle \in BOOLEAN
    /\ storedAtLoad = "null"
    /\ toggled = FALSE
    /\ beforeToggles = <<>>

\* DOMContentLoaded: applyTheme(getTheme())
ThemeDOMContentLoaded ==
    /\ ~themeLoaded
    /\ themeLoaded' = TRUE
    /\ storedAtLoad' = storedTheme
    /\ applyTheme(getTheme)
    /\ beforeToggles' = <<>>
    /\ call' = [NoCall EXCEPT !.op = "themeInit"]
    /\ UNCHANGED <<POSTS, result, firstCall, blogVars, burstVars, postVars, homeVars,
                   prefersDark, themeToggle, toggled>>

\* click on #theme-toggle, which has the listener once DOMContentLoaded ran
ThemeToggleClick ==
    /\ themeLoaded
    /\ themeToggle
    /\ toggleTheme
    /\ toggled' = TRUE
    /\ beforeToggles' =
           IF Len(beforeToggles) < 2
           THEN Append(beforeToggles, <<dataTheme, storedTheme>>)
           ELSE <<beforeToggles[2], <<dataTheme, storedTheme>>>>
    /\ call' = [NoCall EXCEPT !.op = "toggleTheme"]
    /\ UNCHANGED <<POSTS, result, firstCall, blogVars, burstVars, postVars, homeVars,
                   prefersDark, themeLoaded, themeToggle, storedAtLoad>>

\* the system colour scheme changes; the listener was added when the script
\* ran, so it is there before DOMContentLoaded as well
ColorSchemeChange ==
    /\ prefersDark' = ~prefersDark
    /\ IF NoSavedTheme
       THEN applyTheme(IF prefersDark' THEN "dark" ELSE "light")
       ELSE UNCHANGED <<dataTheme, storedTheme>>
    /\ beforeToggles' = <<>>
    /\ call' = [NoCall EXCEPT !.op = "colorSchemeChange"]
    /\ UNCHANGED <<POSTS, result, firstCall, blogVars, burstVars, postVars, homeVars,
                   themeLoaded, themeToggle, storedAtLoad, toggled>>

\* the user opens another page of the site or reloads: a new document,
\* the same localStorage
PageLoad ==
    /\ themeLoaded
    /\ themeLoaded' = FALSE
    /\ themeToggle' \in BOOLEAN
    /\ dataTheme' = "null"
    /\ storedAtLoad' = "null"
    /\ beforeToggles' = <<>>
    /\ call' = [NoCall EXCEPT !.op = "pageLoad"]
    /\ UNCHANGED <<POSTS, result, firstCall, blogVars, burstVars, postVars, homeVars,
                   storedTheme, prefersDark, toggled>>

ThemeNext ==
    \/ ThemeDOMContentLoaded
    \/ ThemeToggleClick
    \/ ColorSchemeChange
    \/ PageLoad

SpecTheme == ThemeInit /\ [][ThemeNext]_vars

-----------------------------------------------------------------------------
(* post.js *)

\* 'Error'
s_Error == <<69, 114, 114, 111, 114>>

\* showError(message)
showError(message) ==
    /\ postTitle' = s_Error
    /\ postBody' = message

\* loadRelatedPosts(postId): getRelatedPosts(postId, 3)
loadRelatedPosts(postId) ==
    relatedPosts' = [called |-> TRUE, posts |-> getRelatedPosts(postId, 3)]

\* mutant of issueFetch: the request is sent twice
issueFetch_twice(sent) == sent \o <<"pending", "pending">>

\* fetch(post.content): one more request, not yet settled
issueFetch(sent) == Append(sent, "pending")

\* the request in flight settles
settleFetch(sent, outcome) == [sent EXCEPT ![Len(sent)] = outcome]

\* mutant of NotFound: the error is shown and the related posts are loaded
NotFound_loadsRelated ==
    /\ showError("Post not found")
    /\ loadRelatedPosts(urlId)
    /\ pc' = "done"
    /\ UNCHANGED <<fetches, unhandled>>

\* if (!postId) / if (!post): showError('Post not found'); return
NotFound ==
    /\ showError("Post not found")
    /\ pc' = "done"
    /\ UNCHANGED <<fetches, relatedPosts, unhandled>>

\* mutant of OnLoadFailure: no catch, the exception leaves loadPost
OnLoadFailure_uncaught ==
    /\ pc' = "done"
    /\ unhandled' = TRUE
    /\ UNCHANGED <<postTitle, postBody, relatedPosts>>

\* the catch block, and the statement after the try: loadRelatedPosts(postId)
OnLoadFailure ==
    /\ showError("Failed to load post content. Please try again later.")
    /\ loadRelatedPosts(urlId)
    /\ pc' = "done"
    /\ UNCHANGED unhandled

PostInit ==
    /\ POSTS \in Catalogs
    /\ call = NoCall
    /\ firstCall = NothingCalled
    /\ result = <<>>
    /\ BlogInit
    /\ ThemeIdle
    /\ HomeIdle
    /\ urlId \in IdInputs \cup {""}
    /\ pc = "start"
    /\ fetches = <<>>
    /\ postTitle = <<>>
    /\ postBody = "initial"
    /\ relatedPosts = NotLoaded
    /\ unhandled = FALSE

\* DOMContentLoaded: loadPost() runs up to its first await
PostDOMContentLoaded ==
    /\ pc = "start"
    /\ IF urlId = "" \/ getPostById(urlId) = Undefined
       THEN NotFound
       ELSE /\ postTitle' = getPostById(urlId).title
            /\ fetches' = issueFetch(fetches)
            /\ pc' = "await fetch"
            /\ UNCHANGED <<postBody, relatedPosts, unhandled>>
    /\ call' = [NoCall EXCEPT !.op = "loadPost", !.id = urlId]
    /\ UNCHANGED <<POSTS, result, firstCall, blogVars, burstVars, themeVars, homeVars, urlId>>

\* the fetch promise is fulfilled with a response, ok or not
FetchFulfilled ==
    \E ok \in BOOLEAN :
        /\ pc = "await fetch"
        /\ fetches' = settleFetch(fetches, "fulfilled")
        /\ IF ok
           THEN /\ pc' = "await text"
                /\ UNCHANGED <<postTitle, postBody, relatedPosts, unhandled>>
           ELSE OnLoadFailure
        /\ call' = [NoCall EXCEPT !.op = IF ok THEN "response ok"
                                         ELSE "response not ok"]
        /\ UNCHANGED <<POSTS, result, firstCall, blogVars, burstVars, themeVars, homeVars, urlId>>

\* the fetch promise is rejected (network error)
FetchRejected ==
    /\ pc = "await fetch"
    /\ fetches' = settleFetch(fetches, "rejected")
    /\ OnLoadFailure
    /\ call' = [NoCall EXCEPT !.op = "fetch rejected"]
    /\ UNCHANGED <<POSTS, result, firstCall, blogVars, burstVars, themeVars, homeVars, urlId>>

\* response.text() is fulfilled: renderMarkdown(markdown), then
\* loadRelatedPosts(postId)
TextFulfilled ==
    /\ pc = "await text"
    /\ postBody' = "content"
    /\ loadRelatedPosts(urlId)
    /\ pc' = "done"
    /\ call' = [NoCall EXCEPT !.op = "text read"]
    /\ UNCHANGED <<POSTS, result, firstCall, blogVars, burstVars, themeVars, homeVars, urlId,
                   fetches, postTitle, unhandled>>

\* response.text() is rejected (the body could not be read)
TextRejected ==
    /\ pc = "await text"
    /\ OnLoadFailure
    /\ call' = [NoCall EXCEPT !.op = "text rejected"]
    /\ UNCHANGED <<POSTS, result, firstCall, blogVars, burstVars, themeVars, homeVars, urlId,
                   fetches>>

PostNext ==
    \/ PostDOMContentLoaded
    \/ FetchFulfilled
    \/ FetchRejected
    \/ TextFulfilled
    \/ TextRejected

SpecPost == PostInit /\ [][PostNext]_vars

-----------------------------------------------------------------------------
(* The catalog as shipped: the five records of POSTS, their strings as     *)
(* UTF-16 code units.                                                      *)

\* 'C++'
s_Cpp == <<67, 43, 43>>

ShippedPOSTS ==
    <<
      [id |-> "understanding-move-semantics-cpp",
       \* 'Understanding Move Semantics in Modern C++'
       title |-> <<85, 110, 100, 101, 114, 115, 116, 97, 110, 100, 105, 110,
                   103, 32, 77, 111, 118, 101, 32, 83, 101, 109, 97, 110, 116,
                   105, 99, 115, 32, 105, 110, 32, 77, 111, 100, 101, 114,
                   110, 32, 67, 43, 43>>,
       date |-> ShippedDates[1],
       summary |-> <<65, 32, 100, 101, 101, 112, 32, 100, 105, 118, 101, 32,
                     105, 110, 116, 111, 32, 109, 111, 118, 101, 32, 115, 101,
                     109, 97, 110, 116, 105, 99, 115, 44, 32, 114, 118, 97,
                     108, 117, 101, 32, 114, 101, 102, 101, 114, 101, 110, 99,
                     101, 115, 44, 32, 97, 110, 100, 32, 104, 111, 119, 32,
                     116, 104, 101, 121, 32, 105, 109, 112, 114, 111, 118,
                     101, 32, 112, 101, 114, 102, 111, 114, 109, 97, 110, 99,
                     101, 32, 105, 110, 32, 109, 111, 100, 101, 114, 110, 32,
                     67, 43, 43, 32, 97, 112, 112, 108, 105, 99, 97, 116, 105,
                     111, 110, 115, 46>>,
       \* 'C++', 'Performance', 'Programming'
       tags |-> <<s_Cpp,
                  <<80, 101, 114, 102, 111, 114, 109, 97, 110, 99, 101>>,
                  <<80, 114, 111, 103, 114, 97, 109, 109, 105, 110, 103>>>>],
      [id |-> "neural-networks-from-scratch",
       \* 'Building Neural Networks from Scratch'
       title |-> <<66, 117, 105, 108, 100, 105, 110, 103, 32, 78, 101, 117,
                   114, 97, 108, 32, 78, 101, 116, 119, 111, 114, 107, 115,
                   32, 102, 114, 111, 109, 32, 83, 99, 114, 97, 116, 99, 104>>,
       date |-> ShippedDates[2],
       summary |-> <<73, 109, 112, 108, 101, 109, 101, 110, 116, 105, 110,
                     103, 32, 97, 32, 110, 101, 117, 114, 97, 108, 32, 110,
                     101, 116, 119, 111, 114, 107, 32, 117, 115, 105, 110,
                     103, 32, 111, 110, 108, 121, 32, 78, 117, 109, 80, 121,
                     32, 116, 111, 32, 117, 110, 100, 101, 114, 115, 116, 97,
                     110, 100, 32, 116, 104, 101, 32, 102, 117, 110, 100, 97,
                     109, 101, 110, 116, 97, 108, 115, 32, 111, 102, 32, 98,
                     97, 99, 107, 112, 114, 111, 112, 97, 103, 97, 116, 105,
                     111, 110, 32, 97, 110, 100, 32, 103, 114, 97, 100, 105,
                     101, 110, 116, 32, 100, 101, 115, 99, 101, 110, 116, 46>>,
       \* 'AI', 'Machine Learning', 'Python'
       tags |-> <<<<65, 73>>,
                  <<77, 97, 99, 104, 105, 110, 101, 32, 76, 101, 97, 114, 110,
                    105, 110, 103>>,
                  <<80, 121, 116, 104, 111, 110>>>>],
      [id |-> "intro-to-shader-programming",
       \* 'Introduction to Shader Programming'
       title |-> <<73, 110, 116, 114, 111, 100, 117, 99, 116, 105, 111, 110,
                   32, 116, 111, 32, 83, 104, 97, 100, 101, 114, 32, 80, 114,
                   111, 103, 114, 97, 109, 109, 105, 110, 103>>,
       date |-> ShippedDates[3],
       summary |-> <<76, 101, 97, 114, 110, 32, 116, 104, 101, 32, 98, 97,
                     115, 105, 99, 115, 32, 111, 102, 32, 118, 101, 114, 116,
                     101, 120, 32, 97, 110, 100, 32, 102, 114, 97, 103, 109,
                     101, 110, 116, 32, 115, 104, 97, 100, 101, 114, 115, 44,
                     32, 97, 110, 100, 32, 99, 114, 101, 97, 116, 101, 32,
                     121, 111, 117, 114, 32, 102, 105, 114, 115, 116, 32, 71,
                     80, 85, 45, 97, 99, 99, 101, 108, 101, 114, 97, 116, 101,
                     100, 32, 118, 105, 115, 117, 97, 108, 32, 101, 102, 102,
                     101, 99, 116, 115, 46>>,
       \* 'Graphics', 'Shaders', 'GLSL'
       tags |-> <<<<71, 114, 97, 112, 104, 105, 99, 115>>,
                  <<83, 104, 97, 100, 101, 114, 115>>,
                  <<71, 76, 83, 76>>>>],
      [id |-> "probability-theory-ml",
       \* 'Probability Theory for Machine Learning'
       title |-> <<80, 114, 111, 98, 97, 98, 105, 108, 105, 116, 121, 32, 84,
                   104, 101, 111, 114, 121, 32, 102, 111, 114, 32, 77, 97, 99,
                   104, 105, 110, 101, 32, 76, 101, 97, 114, 110, 105, 110,
                   103>>,
       date |-> ShippedDates[4],
       summary |-> <<69, 115, 115, 101, 110, 116, 105, 97, 108, 32, 112, 114,
                     111, 98, 97, 98, 105, 108, 105, 116, 121, 32, 99, 111,
                     110, 99, 101, 112, 116, 115, 32, 101, 118, 101, 114, 121,
                     32, 77, 76, 32, 101, 110, 103, 105, 110, 101, 101, 114,
                     32, 115, 104, 111, 117, 108, 100, 32, 107, 110, 111, 119,
                     44, 32, 102, 114, 111, 109, 32, 66, 97, 121, 101, 115,
                     32, 116, 104, 101, 111, 114, 101, 109, 32, 116, 111, 32,
                     112, 114, 111, 98, 97, 98, 105, 108, 105, 116, 121, 32,
                     100, 105, 115, 116, 114, 105, 98, 117, 116, 105, 111,
                     110, 115, 46>>,
       \* 'Math', 'Machine Learning', 'Probability'
       tags |-> <<<<77, 97, 116, 104>>,
                  <<77, 97, 99, 104, 105, 110, 101, 32, 76, 101, 97, 114, 110,
                    105, 110, 103>>,
                  <<80, 114, 111, 98, 97, 98, 105, 108, 105, 116, 121>>>>],
      [id |-> "modern-cpp-best-practices",
       \* 'Modern C++ Best Practices in 2026'
       title |-> <<77, 111, 100, 101, 114, 110, 32, 67, 43, 43, 32, 66, 101,
                   115, 116, 32, 80, 114, 97, 99, 116, 105, 99, 101, 115, 32,
                   105, 110, 32, 50, 48, 50, 54>>,
       date |-> ShippedDates[5],
       summary |-> <<65, 32, 99, 111, 109, 112, 114, 101, 104, 101, 110, 115,
                     105, 118, 101, 32, 103, 117, 105, 100, 101, 32, 116, 111,
                     32, 119, 114, 105, 116, 105, 110, 103, 32, 99, 108, 101,
                     97, 110, 44, 32, 101, 102, 102, 105, 99, 105, 101, 110,
                     116, 44, 32, 97, 110, 100, 32, 109, 97, 105, 110, 116,
                     97, 105, 110, 97, 98, 108, 101, 32, 67, 43, 43, 32, 99,
                     111, 100, 101, 32, 117, 115, 105, 110, 103, 32, 67, 43,
                     43, 50, 48, 32, 97, 110, 100, 32, 67, 43, 43, 50, 51, 32,
                     102, 101, 97, 116, 117, 114, 101, 115, 46>>,
       \* 'C++', 'Best Practices', 'Software Engineering'
       tags |-> <<s_Cpp,
                  <<66, 101, 115, 116, 32, 80, 114, 97, 99, 116, 105, 99, 101,
                    115>>,
                  <<83, 111, 102, 116, 119, 97, 114, 101, 32, 69, 110, 103,
                    105, 110, 101, 101, 114, 105, 110, 103>>>>] >>

\* ids passed to the functions: those of the records and one of no record
ShippedIdInputs ==
    {ShippedPOSTS[i].id : i \in 1..Len(ShippedPOSTS)} \cup {"unknown"}

\* tags passed to getPostsByTag: 'all', 'C++', 'c++', 'Machine Learning',
\* and 'Rust', the tag of no record
ShippedTagInputs ==
    {s_all, s_Cpp, <<99, 43, 43>>,
     <<77, 97, 99, 104, 105, 110, 101, 32, 76, 101, 97, 114, 110, 105, 110,
       103>>,
     <<82, 117, 115, 116>>}

\* getRecentPosts(limit = 3), getRelatedPosts(postId, limit = 3)
DefaultLimit == 3

ShippedInit ==
    /\ POSTS = ShippedPOSTS
    /\ call = NoCall
    /\ firstCall = NothingCalled
    /\ result = <<>>
    /\ BlogInit
    /\ ThemeIdle
    /\ HomeIdle
    /\ urlId \in ShippedIdInputs \cup {""}
    /\ pc = "start"
    /\ fetches = <<>>
    /\ postTitle = <<>>
    /\ postBody = "initial"
    /\ relatedPosts = NotLoaded
    /\ unhandled = FALSE

ShippedGetPostsByTag ==
    \E tag \in ShippedTagInputs :
        /\ call' = [NoCall EXCEPT !.op = "getPostsByTag", !.text = tag]
        /\ result' = getPostsByTag(tag)
        /\ POSTS' = AfterGetAllPosts
        /\ UNCHANGED <<blogVars, burstVars, otherPages, firstCall>>

ShippedGetRelatedPosts ==
    \E id \in ShippedIdInputs, limit \in 0..DefaultLimit :
        /\ call' = [NoCall EXCEPT !.op = "getRelatedPosts", !.id = id,
                                  !.limit = limit]
        /\ result' = getRelatedPosts(id, limit)
        /\ UNCHANGED <<POSTS, blogVars, burstVars, otherPages, firstCall>>

\* the functions called on the shipped catalog, and the post view, which
\* calls getRelatedPosts(postId, 3), loading on it
ShippedNext ==
    \/ ShippedGetPostsByTag
    \/ ShippedGetRelatedPosts
    \/ PostDOMContentLoaded
    \/ FetchFulfilled
    \/ FetchRejected
    \/ TextFulfilled
    \/ TextRejected

SpecShipped == ShippedInit /\ [][ShippedNext]_vars

-----------------------------------------------------------------------------
(* main.js: the home page *)

\* the limit loadRecentPosts passes to getRecentPosts
HomeLimit == 6

\* #posts-container is missing from the document
NoContainer == [state |-> "absent", posts |-> <<>>]

\* loadRecentPosts(): a card for each recent post, or the message when there
\* is none; nothing when the document has no #posts-container
loadRecentPosts ==
    IF postsContainer = NoContainer
    THEN UNCHANGED <<POSTS, postsContainer>>
    ELSE LET recentPosts == getRecentPosts(HomeLimit)
         IN  /\ POSTS' = AfterGetAllPosts
             /\ postsContainer' =
                    IF Len(recentPosts) = 0
                    THEN [state |-> "No posts available yet.", posts |-> <<>>]
                    ELSE [state |-> "cards", posts |-> recentPosts]

\* limits handed to getRecentPosts: none, some, the home page's, one more
RecentLimits == 0..(HomeLimit + 1)

HomeInit ==
    /\ POSTS \in {BlogCatalog(n) : n \in 0..MaxBlogPosts}
    /\ call = NoCall
    /\ firstCall = NothingCalled
    /\ result = <<>>
    /\ BlogInit
    /\ ThemeIdle
    /\ PostIdle
    /\ homeLoaded = FALSE
    /\ postsContainer \in {HomeNotLoaded, NoContainer}

\* DOMContentLoaded on the home page: loadRecentPosts()
HomeDOMContentLoaded ==
    /\ ~homeLoaded
    /\ homeLoaded' = TRUE
    /\ loadRecentPosts
    /\ call' = [NoCall EXCEPT !.op = "loadRecentPosts", !.limit = HomeLimit]
    /\ UNCHANGED <<result, firstCall, blogVars, burstVars, themeVars, postVars>>

\* getRecentPosts(limit) called from anywhere
HomeGetRecentPosts ==
    \E limit \in RecentLimits :
        /\ call' = [NoCall EXCEPT !.op = "getRecentPosts", !.limit = limit]
        /\ result' = getRecentPosts(limit)
        /\ POSTS' = AfterGetAllPosts
        /\ UNCHANGED <<firstCall, blogVars, burstVars, otherPages>>

HomeNext ==
    \/ HomeDOMContentLoaded
    \/ HomeGetRecentPosts

SpecHome == HomeInit /\ [][HomeNext]_vars

-----------------------------------------------------------------------------
(* Properties of the query functions *)

Known(id) == \E i \in 1..Len(POSTS) : POSTS[i].id = id

\* position of a record in a sequence of records with distinct ids
IndexOf(seq, id) == CHOOSE i \in 1..Len(seq) : seq[i].id = id

NoDuplicates(seq) == \A i, j \in 1..Len(seq) : seq[i] = seq[j] => i = j

\* r consists of records of c, each at most once, in the order they have in c
IsSubsequenceOf(r, c) ==
    /\ NoDuplicates(r)
    /\ \A i \in 1..Len(r) : r[i] \in Range(c)
    /\ \A i, j \in 1..Len(r) : i < j => IndexOf(c, r[i].id) < IndexOf(c, r[j].id)

\* the same letters up to case, code unit by code unit
SameLetter(c1, c2) ==
    \/ c1 = c2
    \/ c1 >= 65 /\ c1 <= 90 /\ c2 = c1 + 32
    \/ c2 >= 65 /\ c2 <= 90 /\ c1 = c2 + 32

EqualIgnoringCase(a, b) ==
    Len(a) = Len(b) /\ \A k \in 1..Len(a) : SameLetter(a[k], b[k])

ContainsIgnoringCase(s, q) ==
    \E off \in 0..(Len(s) - Len(q)) :
        \A k \in 1..Len(q) : SameLetter(s[off + k], q[k])

\* C1: getAllPosts() returns a permutation of the catalog ordered by date
\* descending, and posts with equal dates keep their catalog order (stable).
C1_NewestFirstStable ==
    call.op = "getAllPosts" =>
        /\ Len(result) = Len(POSTS)
        /\ NoDuplicates(result)
        /\ Range(result) = Range(POSTS)
        /\ \A i, j \in 1..Len(result) :
              i < j => /\ DateValue(result[i].date) >= DateValue(result[j].date)
                       /\ result[i].date = result[j].date =>
                             IndexOf(POSTS, result[i].id) < IndexOf(POSTS, result[j].id)

\* C1 witness: a three-post catalog with a date tie that sorting had to reorder
C1_Witness ==
    /\ call.op = "getAllPosts"
    /\ Len(POSTS) = 3
    /\ result # POSTS
    /\ \E i, j \in 1..Len(POSTS) : i < j /\ POSTS[i].date = POSTS[j].date

\* C2: getPostsByTag('all') equals getAllPosts(); for any other tag t the
\* result holds exactly the posts with some tag equal to t ignoring letter
\* case, in the order of the newest-first list.
C2_FilterByTag ==
    call.op = "getPostsByTag" =>
        IF call.text = s_all
        THEN result = getAllPosts
        ELSE /\ IsSubsequenceOf(result, getAllPosts)
             /\ \A i \in 1..Len(POSTS) :
                   POSTS[i] \in Range(result) <=>
                       \E k \in 1..Len(POSTS[i].tags) :
                           EqualIgnoringCase(POSTS[i].tags[k], call.text)

\* C2 witness: a tag filter that keeps some posts, drops others, and keeps
\* one whose tag matches only when case is ignored
C2_Witness ==
    /\ call.op = "getPostsByTag"
    /\ call.text # s_all
    /\ Len(result) > 0
    /\ Len(result) < Len(POSTS)
    /\ \E i \in 1..Len(result) : call.text \notin Range(result[i].tags)

SharedTagCount(p, source) ==
    Cardinality({k \in 1..Len(p.tags) : p.tags[k] \in Range(source.tags)})

SourcePost(id) == POSTS[IndexOf(POSTS, id)]

\* C4: getRelatedPosts(id, k) never contains the post with that id, never a
\* post sharing no tag with the source post, has at most k entries, and is
\* empty when no post has that id.
C4_RelatedExcludes ==
    call.op = "getRelatedPosts" =>
        /\ Len(result) <= call.limit
        /\ \A i \in 1..Len(result) : result[i].id # call.id
        /\ ~Known(call.id) => result = <<>>
        /\ Known(call.id) =>
              \A i \in 1..Len(result) :
                  SharedTagCount(result[i], SourcePost(call.id)) > 0

\* C4 witness: a known source with more tag-sharing posts than the limit
C4_Witness ==
    /\ call.op = "getRelatedPosts"
    /\ Known(call.id)
    /\ call.limit > 0
    /\ Len(result) = call.limit
    /\ Cardinality({i \in 1..Len(POSTS) :
                       /\ POSTS[i].id # call.id
                       /\ SharedTagCount(POSTS[i], SourcePost(call.id)) > 0})
          > call.limit

\* C5: the result of getRelatedPosts is ordered by shared-tag count
\* descending and, among equal counts, the more recent post comes first,
\* whatever the order of the catalog.
C5_RelatedOrderedByScoreThenDate ==
    (call.op = "getRelatedPosts" /\ Known(call.id)) =>
        \A i, j \in 1..Len(result) :
            i < j =>
                LET si == SharedTagCount(result[i], SourcePost(call.id))
                    sj == SharedTagCount(result[j], SourcePost(call.id))
                IN  /\ si >= sj
                    /\ si = sj =>
                          DateValue(result[i].date) >= DateValue(result[j].date)

\* C6: getPostById(i) returns the record with id i when one exists, and the
\* absence value exactly when no record has id i.
C6_Lookup ==
    call.op = "getPostById" =>
        /\ (result = Undefined) <=> ~Known(call.id)
        /\ Known(call.id) => (result \in Range(POSTS) /\ result.id = call.id)

\* C6 witness: a lookup that missed in a non-empty catalog
C6_Witness ==
    /\ call.op = "getPostById"
    /\ Len(POSTS) >= 2
    /\ result = Undefined

AllTagsOfCatalog == UNION {Range(POSTS[i].tags) : i \in 1..Len(POSTS)}

\* C7: getAllTags() returns every tag string of the catalog exactly once
\* (case-sensitive identity) and nothing else, in ascending code-unit order.
C7_UniqueSortedTags ==
    call.op = "getAllTags" =>
        /\ Range(result) = AllTagsOfCatalog
        /\ \A i, j \in 1..Len(result) : i < j => StringLess(result[i], result[j])

\* C7 witness: tags differing only in case, a tag carried by two posts, and
\* a first-seen order that differs from the sorted order
C7_Witness ==
    /\ call.op = "getAllTags"
    /\ {t_Ab, t_ab} \subseteq Range(result)
    /\ \E i, j \in 1..Len(POSTS) :
          i < j /\ Range(POSTS[i].tags) \cap Range(POSTS[j].tags) # {}
    /\ result # SetInOrder(Flatten([i \in 1..Len(POSTS) |-> POSTS[i].tags]))

-----------------------------------------------------------------------------
(* Properties of the listing page *)

\* C8: the displayed posts of 1-based page p are exactly the items of the
\* filtered sequence at 0-based indices (p-1)*9 .. min(p*9, length)-1, in
\* sequence order.
C8_PageSlice ==
    loaded =>
        LET first == (currentPage - 1) * postsPerPage
            last  == Min(currentPage * postsPerPage, Len(filteredPosts)) - 1
        IN  IF last < first
            THEN container = <<>>
            ELSE /\ Len(container) = last - first + 1
                 /\ \A k \in first..last :
                       container[k - first + 1] = filteredPosts[k + 1]

\* C8 witness: page 2 of a 20-item sequence shows the items at indices 9..17
C8_Witness ==
    /\ loaded
    /\ Len(filteredPosts) = 20
    /\ currentPage = 2
    /\ Len(container) = 9
    /\ container[1] = filteredPosts[10]
    /\ container[9] = filteredPosts[18]

\* page p lies past the last page of a list of n items
PastLastPage(p, n) == (p - 1) * postsPerPage >= n

\* C9: changePage(p) with p < 1 or p > ceil(length / 9) leaves currentPage,
\* filteredPosts and the displayed posts unchanged; with p in range
\* currentPage becomes p.
C9_ChangePageBounds ==
    [][ call'.op = "changePage" =>
            IF call'.page < 1 \/ PastLastPage(call'.page, Len(filteredPosts))
            THEN UNCHANGED <<currentPage, filteredPosts, container>>
            ELSE currentPage' = call'.page /\ UNCHANGED filteredPosts ]_vars

\* C9 witness: a request past the last page was rejected while page 2 of a
\* multi-page list was on display
C9_Witness ==
    /\ call.op = "changePage"
    /\ PastLastPage(call.page, Len(filteredPosts))
    /\ currentPage = 2
    /\ Len(container) > 0

WhitespaceOnly(text) == \A k \in 1..Len(text) : IsWhiteSpace(text[k])

FirstPageOf(posts) == SubSeq(posts, 1, Min(postsPerPage, Len(posts)))

\* C10 as claimed: whatever tag is selected, evaluating an empty or
\* whitespace-only query leaves the listing showing the unfiltered
\* newest-first list of all posts.
C10_EmptySearchShowsAllPosts ==
    (call.op = "handleSearch" /\ WhitespaceOnly(call.text)) =>
        /\ filteredPosts = getAllPosts
        /\ container = FirstPageOf(getAllPosts)

\* C10 as amended: evaluating an empty or whitespace-only query leaves the
\* listing on page 1 of the newest-first list filtered by the currently
\* selected tag, with the search box cleared; that list is the unfiltered
\* one when the selected tag is 'all'.
C10_EmptySearchRestoresTagFilter ==
    (call.op = "handleSearch" /\ WhitespaceOnly(call.text)) =>
        /\ filteredPosts = getPostsByTag(currentTag)
        /\ currentTag = s_all => filteredPosts = getAllPosts
        /\ currentPage = 1
        /\ container = FirstPageOf(filteredPosts)
        /\ searchInput = <<>>

\* C10 witness: a whitespace-only query evaluated while a tag other than
\* 'all' is selected, leaving fewer posts than the whole catalog
C10_Witness ==
    /\ call.op = "handleSearch"
    /\ call.text = <<32>>
    /\ currentTag # s_all
    /\ Len(filteredPosts) > 0
    /\ Len(filteredPosts) < Len(POSTS)

-----------------------------------------------------------------------------
(* Properties of the search debounce *)

\* the keystrokes counted in `keys` are still following one another in
\* less than the delay
BurstGoingOn == keys >= 1 /\ sinceKey < DebounceDelay

\* C11: search input is debounced by 300 ms.  At most one evaluation is
\* ever pending, since a keystroke cancels the one that was pending; while
\* keystrokes follow one another in less than 300 ms no evaluation runs;
\* the burst is answered by one handleSearch call, never a second one, and
\* that call evaluates the value the input holds when it runs.
C11_Debounce ==
    /\ Cardinality(timers) <= 1
    /\ \A t \in timers : t.id = searchTimeout
    /\ BurstGoingOn => evaluations = 0 /\ timers # {}
    /\ keys >= 1 => \/ timers # {} /\ evaluations = 0
                    \/ timers = {} /\ evaluations = 1
    /\ call.op = "handleSearch" =>
           /\ timers = {}
           /\ ~WhitespaceOnly(call.text) =>
                  /\ call.text = searchInput
                  /\ filteredPosts = searchPosts(searchInput)

\* C11 witness: three keystrokes less than 300 ms apart were answered by
\* one evaluation, of the last value typed, which matched some post but
\* not all
C11_Witness ==
    /\ keys = MaxBurst
    /\ evaluations = 1
    /\ call.op = "handleSearch"
    /\ call.text = searchInput
    /\ Len(filteredPosts) > 0
    /\ Len(filteredPosts) < Len(POSTS)

-----------------------------------------------------------------------------
(* Properties of the theme controller *)

SystemTheme == IF prefersDark THEN "dark" ELSE "light"

Opposite(theme) == IF theme = "dark" THEN "light" ELSE "dark"

\* C12: the theme applied at page initialisation is the saved theme when
\* one is stored, else 'dark' when the system prefers dark, else 'light'.
C12_InitialTheme ==
    call.op = "themeInit" =>
        dataTheme = IF storedAtLoad # "null" THEN storedAtLoad
                    ELSE IF prefersDark THEN "dark" ELSE "light"

\* C12 witness: the page initialised with 'light' saved while the system
\* prefers dark
C12_Witness ==
    /\ call.op = "themeInit"
    /\ storedAtLoad = "light"
    /\ prefersDark
    /\ dataTheme = "light"

\* C13 as claimed: when nothing was stored at load and the user has never
\* toggled, a change of the system colour scheme after page initialisation
\* makes the applied theme follow the system.
C13_SystemChangeFollowed ==
    [][(/\ themeLoaded
        /\ storedAtLoad = "null"
        /\ ~toggled
        /\ prefersDark' # prefersDark)
       => dataTheme' = IF prefersDark' THEN "dark" ELSE "light"]_vars

\* C14: once the user has toggled, a change of the system colour scheme
\* alters neither the applied theme nor the saved one; in a loaded page
\* only a further toggle alters them.
C14_ToggleOverridesSystem ==
    [][/\ (toggled /\ prefersDark' # prefersDark)
           => dataTheme' = dataTheme /\ storedTheme' = storedTheme
       /\ (toggled /\ storedTheme' # storedTheme)
           => call'.op = "toggleTheme"
       /\ (toggled /\ themeLoaded /\ themeLoaded' /\ dataTheme' # dataTheme)
           => call'.op = "toggleTheme"]_vars

\* C14 witness: the system changed to the scheme opposite to the theme the
\* user toggled to, and the page kept the user's theme
C14_Witness ==
    /\ toggled
    /\ themeLoaded
    /\ call.op = "colorSchemeChange"
    /\ dataTheme # SystemTheme
    /\ storedTheme = dataTheme

\* C15: a toggle from 'light' or 'dark' applies the other theme and saves
\* it; after two consecutive toggles the applied theme and the saved value
\* are what they were before the first.
C15_ToggleInvolution ==
    /\ call.op = "toggleTheme" =>
           LET before == beforeToggles[Len(beforeToggles)]
           IN  before[1] \in {"light", "dark"} =>
                   /\ dataTheme = Opposite(before[1])
                   /\ storedTheme = dataTheme
    /\ Len(beforeToggles) = 2 =>
           /\ dataTheme = beforeToggles[1][1]
           /\ storedTheme = beforeToggles[1][2]

\* C15 witness: two toggles in a row, starting from the dark theme
C15_Witness ==
    /\ call.op = "toggleTheme"
    /\ Len(beforeToggles) = 2
    /\ beforeToggles[1][1] = "dark"
    /\ beforeToggles[2][1] = "light"
    /\ dataTheme = "dark"

\* C16 as claimed: the saved theme is written only by a user toggle; page
\* initialisation and system changes before any toggle leave the storage as
\* it was, so an absent entry stays absent until the first toggle.
C16_StorageWrittenOnlyByToggle ==
    [][storedTheme' # storedTheme => call'.op = "toggleTheme"]_vars

-----------------------------------------------------------------------------
(* Properties of the post view *)

s_NotFound == "Post not found"
s_LoadFailed == "Failed to load post content. Please try again later."

Pending(sent) == {k \in 1..Len(sent) : sent[k] = "pending"}

\* C17: with no id parameter, or an id no record carries, the post view
\* ends in the not-found state ('Post not found'), without a content fetch
\* and without a related-posts query.
C17_NotFound ==
    (pc # "start" /\ (urlId = "" \/ ~Known(urlId))) =>
        /\ pc = "done"
        /\ postTitle = s_Error
        /\ postBody = s_NotFound
        /\ fetches = <<>>
        /\ relatedPosts = NotLoaded

\* C17 witness: the URL named an id that none of the catalog's records has
C17_Witness ==
    /\ pc = "done"
    /\ urlId = "unknown"
    /\ Len(POSTS) = MaxPosts
    /\ postBody = s_NotFound

\* C18: when the content fetch is rejected or answered with a non-ok
\* response, loadPost catches the failure: the page shows the error state,
\* no rejection is left unhandled, and the related posts are loaded after.
C18_FetchFailureCaught ==
    /\ ~unhandled
    /\ call.op \in {"fetch rejected", "response not ok"} =>
           /\ pc = "done"
           /\ postTitle = s_Error
           /\ postBody = s_LoadFailed
           /\ relatedPosts = [called |-> TRUE, posts |-> getRelatedPosts(urlId, 3)]

\* C18 witness: the fetch was rejected, and the related posts shown after
\* the error are not empty
C18_Witness ==
    /\ call.op = "fetch rejected"
    /\ postBody = s_LoadFailed
    /\ relatedPosts.called
    /\ Len(relatedPosts.posts) > 0

\* C19: during one load of the post view at most one content fetch is
\* issued, for a known post only; a failed fetch is not retried, and two
\* fetches are never outstanding together.
C19_SingleFetch ==
    /\ Len(fetches) <= 1
    /\ Cardinality(Pending(fetches)) <= 1
    /\ Pending(fetches) # {} <=> pc = "await fetch"
    /\ fetches # <<>> => Known(urlId)

\* C19 witness: the one fetch failed and loadPost has finished
C19_Witness ==
    /\ pc = "done"
    /\ fetches = <<"rejected">>

-----------------------------------------------------------------------------
(* Properties of sequences of calls *)

\* C20: no call of getAllPosts, getPostById, getRecentPosts, getPostsByTag,
\* getAllTags, searchPosts or getRelatedPosts changes POSTS, whatever calls
\* came before it; and a call made again with the same arguments returns
\* what it returned the first time.
C20_CatalogUnchanged ==
    [][/\ POSTS' = POSTS
       /\ call' = firstCall'.call => result' = firstCall'.result]_vars

\* C20 witness: after other calls, getRelatedPosts was called again with
\* the arguments of the first call, on a catalog that is not newest-first,
\* and returned a post
C20_Witness ==
    /\ firstCall.again
    /\ call = firstCall.call
    /\ call.op = "getRelatedPosts"
    /\ Len(result) >= 1
    /\ POSTS # getAllPosts

-----------------------------------------------------------------------------
(* Properties of the shipped catalog *)

\* C21: on the shipped catalog of five posts, getPostsByTag('C++') returns
\* exactly the two posts tagged 'C++', the newer one first, and
\* getRelatedPosts('understanding-move-semantics-cpp', 3) contains the other
\* 'C++' post, 'modern-cpp-best-practices', and no post that shares no tag
\* with the source post.
C21_ShippedExample ==
    /\ (call.op = "getPostsByTag" /\ call.text = s_Cpp) =>
           /\ Len(result) = 2
           /\ result[1].id = "understanding-move-semantics-cpp"
           /\ result[2].id = "modern-cpp-best-practices"
           /\ \A i \in 1..Len(POSTS) :
                  s_Cpp \in Range(POSTS[i].tags) <=> POSTS[i] \in Range(result)
           /\ DateValue(result[1].date) > DateValue(result[2].date)
    /\ (/\ call.op = "getRelatedPosts"
        /\ call.id = "understanding-move-semantics-cpp"
        /\ call.limit = 3) =>
           /\ \E k \in 1..Len(result) :
                  result[k].id = "modern-cpp-best-practices"
           /\ \A k \in 1..Len(result) :
                  SharedTagCount(result[k], SourcePost(call.id)) > 0

\* C21 witness: the related posts of 'understanding-move-semantics-cpp',
\* limit 3, were asked for on the five-post catalog and one came back
C21_Witness ==
    /\ Len(POSTS) = 5
    /\ call.op = "getRelatedPosts"
    /\ call.id = "understanding-move-semantics-cpp"
    /\ call.limit = 3
    /\ Len(result) = 1

-----------------------------------------------------------------------------
(* Properties of the listing page under any interleaving of its handlers *)

LastPage == Ceil(Len(filteredPosts), postsPerPage)

\* C22: in every state of the listing page, whatever tag clicks, search
\* evaluations and page clicks led to it,
\* 1 <= currentPage <= max(1, ceil(filteredPosts.length / 9)); so the
\* displayed page is empty only when filteredPosts is empty.
C22_PageInRange ==
    /\ 1 <= currentPage
    /\ currentPage <= (IF LastPage < 1 THEN 1 ELSE LastPage)
    /\ (loaded /\ container = <<>>) => filteredPosts = <<>>

\* C22 witness: the last of several pages of a tag-filtered listing
C22_Witness ==
    /\ loaded
    /\ currentTag # s_all
    /\ currentPage >= 2
    /\ currentPage = LastPage
    /\ container # <<>>

\* C23: a tag click, from any state of the listing page, makes the clicked
\* tag the current tag, goes to page 1, clears the search input and leaves
\* filteredPosts equal to getPostsByTag of that tag; the evaluation of a
\* non-blank query goes to page 1 as well.
C23_TagClickEffects ==
    /\ call.op = "filterByTag" =>
           /\ currentTag = call.text
           /\ currentPage = 1
           /\ searchInput = <<>>
           /\ filteredPosts = getPostsByTag(call.text)
    /\ (call.op = "handleSearch" /\ ~WhitespaceOnly(call.text)) =>
           currentPage = 1

\* C23 witness: a tag other than 'all' was clicked while a typed query was
\* waiting for its evaluation, on a listing of more than one page
C23_Witness ==
    /\ call.op = "filterByTag"
    /\ currentTag # s_all
    /\ timers # {}
    /\ searchInput = <<>>
    /\ Len(filteredPosts) > postsPerPage


\* C24: when a tag is clicked while a debounced search evaluation is pending
\* and the evaluation then runs with no keystroke in between, the listing
\* still shows the clicked tag: currentTag is the clicked tag and
\* filteredPosts = getPostsByTag(currentTag). The click has emptied the
\* search input, so the late evaluation reads the empty text, also when
\* page clicks came between the tag click and the evaluation.
C24_StaleSearchKeepsTag ==
    [][call'.op = "handleSearch" =>
           /\ call.op = "filterByTag" =>
                  /\ currentTag' = call.text
                  /\ filteredPosts' = getPostsByTag(call.text)
           /\ searchInput = <<>> =>
                  /\ currentTag' = currentTag
                  /\ filteredPosts' = getPostsByTag(currentTag)]_vars

\* the late evaluation has run right after a click on a tag that some but
\* not all posts carry
C24_Witness ==
    /\ call.op = "handleSearch"
    /\ call.after = "filterByTag"
    /\ currentTag # s_all
    /\ filteredPosts # <<>>
    /\ Len(filteredPosts) < Len(POSTS)

\* C25: a page selected with changePage stays current until the next tag
\* click or search keystroke: when the callback of a timeout that was armed
\* before the page was selected runs, currentPage keeps the selected page.
\* (The step leads from a state whose last event was the accepted page
\* selection to the run of the callback, so no keystroke or tag click came
\* in between and the timeout was armed before the selection.)
C25_SelectedPageSurvivesTimer ==
    [][(/\ call.op = "changePage"
        /\ currentPage = call.page
        /\ call'.op = "handleSearch") => currentPage' = currentPage]_vars

\* C25 in the interleaving keystroke, tag click, page click, timeout: the
\* input is empty and a tag is selected when the page is chosen
C25_SelectedPageSurvivesTimerAfterTagClick ==
    [][(/\ call.op = "changePage"
        /\ currentPage = call.page
        /\ searchInput = <<>>
        /\ currentTag # s_all
        /\ call'.op = "handleSearch") => currentPage' = currentPage]_vars

\* C26: a non-empty search evaluation leaves currentTag unchanged and sets
\* filteredPosts to searchPosts(query) over the whole catalog, whatever tag
\* is selected; an evaluation of a cleared query leaves currentTag unchanged
\* too and brings filteredPosts back to getPostsByTag(currentTag).
C26_SearchIgnoresTag ==
    [][call'.op = "handleSearch" =>
           /\ currentTag' = currentTag
           /\ filteredPosts' = (IF WhitespaceOnly(call'.text)
                                 THEN getPostsByTag(currentTag)
                                 ELSE searchPosts(call'.text))]_vars

\* C26 witness: a search evaluated while a tag is selected lists a post that
\* does not carry the tag
C26_Witness ==
    /\ call.op = "handleSearch"
    /\ ~WhitespaceOnly(call.text)
    /\ currentTag # s_all
    /\ \E k \in 1..Len(filteredPosts) : ~HasTag(filteredPosts[k], currentTag)

-----------------------------------------------------------------------------
(* Theme state across toggles and system changes *)

\* C27: in every state after theme initialization, through any sequence of
\* toggles and system colour-scheme changes, data-theme equals the saved
\* theme and both are 'light' or 'dark' (storage starts with no theme or
\* with one of the two).
C27_ThemeShownIsThemeSaved ==
    themeLoaded =>
        /\ dataTheme = storedTheme
        /\ dataTheme \in {"light", "dark"}

\* C27 witness: a system change arrives on a page that started without a
\* saved theme and has been toggled, and the page shows the dark theme
C27_Witness ==
    /\ themeLoaded
    /\ storedAtLoad = "null"
    /\ toggled
    /\ call.op = "colorSchemeChange"
    /\ dataTheme = "dark"
    /\ storedTheme = "dark"

-----------------------------------------------------------------------------
(* Recent posts and the home page *)

\* post p is at least as recent as post q
AtLeastAsRecent(p, q) == DateTable[p.date] >= DateTable[q.date]

\* the posts of the catalog that `shown` leaves out
LeftOut(shown) == {POSTS[i] : i \in 1..Len(POSTS)} \ Range(shown)

\* C28: getRecentPosts(n), n >= 0, is the first min(n, catalog size) elements
\* of getAllPosts(); once loaded, the home page shows exactly
\* getRecentPosts(6), the six newest posts newest first, or the 'No posts
\* available yet.' state when the catalog is empty.
C28_HomeShowsSixNewest ==
    /\ call.op = "getRecentPosts" =>
           /\ Len(result) = Min(call.limit, Len(POSTS))
           /\ result = SubSeq(getAllPosts, 1, Len(result))
    /\ (homeLoaded /\ postsContainer # NoContainer) =>
           IF POSTS = <<>>
           THEN postsContainer =
                    [state |-> "No posts available yet.", posts |-> <<>>]
           ELSE /\ postsContainer.state = "cards"
                /\ postsContainer.posts = getRecentPosts(HomeLimit)
                /\ Len(postsContainer.posts) = Min(HomeLimit, Len(POSTS))
                /\ \A k \in 1..(Len(postsContainer.posts) - 1) :
                       AtLeastAsRecent(postsContainer.posts[k],
                                       postsContainer.posts[k + 1])
                /\ \A p \in Range(postsContainer.posts) :
                       \A q \in LeftOut(postsContainer.posts) :
                           AtLeastAsRecent(p, q)

\* C28 witness: the home page shows six cards of a larger catalog, and a
\* call asking for more posts than that got them
C28_Witness ==
    /\ homeLoaded
    /\ Len(POSTS) > HomeLimit
    /\ Len(postsContainer.posts) = HomeLimit
    /\ call.op = "getRecentPosts"
    /\ call.limit = HomeLimit + 1
    /\ Len(result) = HomeLimit + 1

=============================================================================
